---- MODULE Spec2Model ----
(***************************************************************************)
(* PyMPA template-matching detector (pympa39mac.py).                       *)
(*                                                                         *)
(* Numbers.  Correlation coefficients are fixed-point integers in          *)
(* hundredths (100 = 1.0), truncated toward zero.  Times are integers in   *)
(* samples (delta = 1).  Amplitudes are powers of ten so that log10 is     *)
(* exact.  A float NaN is the integer NaN below.                           *)
(***************************************************************************)
EXTENDS Integers, Sequences, FiniteSets, TLC

VARIABLES
    pc,          \* position of the run (or of the function under check)
    arg, ret,    \* arguments and result of a function checked on its own
    cfg,         \* the values read from parameters24
    stream_df,   \* continuous traces of the day
    nunits,      \* (template, day) units started so far
    tpl,         \* template files, travel times and magnitude of the unit
    stream_cft,  \* correlation traces of the unit
    stall,       \* aligned correlation traces (the objects of stream_cft)
    ccmad,       \* result of stack
    triglist,    \* trigger samples of the unit
    itrig,       \* index of the trigger in hand
    cscres,      \* result of csc for the trigger in hand
    md,          \* per-channel magnitude estimates of the trigger in hand
    timestart,   \* the name timestart: bound or not, value, unit that bound it
    f, f1, f2,   \* lines written to the .cat, .stats and .stats.mag files
    err          \* the exception that ended the run, "" if none

pureVars == <<pc, arg, ret>>

pipeVars == <<cfg, stream_df, nunits, tpl, stream_cft, stall, ccmad, triglist,
              itrig, cscres, md, timestart, f, f1, f2, err>>

vars == <<pc, arg, ret, cfg, stream_df, nunits, tpl, stream_cft, stall, ccmad,
          triglist, itrig, cscres, md, timestart, f, f1, f2, err>>

(***************************************************************************)
(* Bounds of the model.                                                    *)
(***************************************************************************)
MaxX == 4        \* longest continuous sequence given to xcorr
MaxY == 2        \* longest template sequence given to xcorr
MaxVec == 4      \* longest vector given to reject_moutliers
MaxTraces == 3   \* most traces given to stack
MaxUnits == 2    \* (template, day) units of one run
MaxTrig == 2     \* triggers of one unit

\* the float "not a number"
NaN == -999999

(***************************************************************************)
(* Arithmetic helpers (numpy / bottleneck reductions on integer data).     *)
(***************************************************************************)
Abs(v) == IF v < 0 THEN -v ELSE v

Sgn(v) == IF v < 0 THEN -1 ELSE IF v > 0 THEN 1 ELSE 0

RECURSIVE SumSeq(_)
SumSeq(s) == IF s = <<>> THEN 0 ELSE Head(s) + SumSeq(Tail(s))

MapAbs(s) == [i \in 1..Len(s) |-> Abs(s[i])]

RECURSIVE MaxSeq(_)
MaxSeq(s) == IF Len(s) = 1 THEN s[1]
             ELSE LET r == MaxSeq(Tail(s)) IN IF s[1] >= r THEN s[1] ELSE r

RECURSIVE MinSeq(_)
MinSeq(s) == IF Len(s) = 1 THEN s[1]
             ELSE LET r == MinSeq(Tail(s)) IN IF s[1] <= r THEN s[1] ELSE r

\* np.argmax: 0-based position of the first maximum
ArgMax(s) == (CHOOSE i \in 1..Len(s) :
                 /\ s[i] = MaxSeq(s)
                 /\ \A j \in 1..(i - 1) : s[j] # s[i]) - 1

\* floor of the square root
ISqrt(n) == CHOOSE r \in 0..n : r * r <= n /\ n < (r + 1) * (r + 1)

RECURSIVE Insert(_, _)
Insert(v, s) == IF s = <<>> THEN <<v>>
                ELSE IF v <= Head(s) THEN <<v>> \o s
                ELSE <<Head(s)>> \o Insert(v, Tail(s))

RECURSIVE SortAsc(_)
SortAsc(s) == IF s = <<>> THEN <<>> ELSE Insert(Head(s), SortAsc(Tail(s)))

\* twice np.median of a non-empty sequence (the mean of the two middle
\* values of an even-length sequence is a half-integer)
Median2(s) == LET t == SortAsc(s)
                  n == Len(s)
              IN IF n % 2 = 1 THEN 2 * t[(n + 1) \div 2]
                 ELSE t[n \div 2] + t[n \div 2 + 1]

\* Python slice a[lo:hi] on a sequence, lo and hi 0-based; a negative index
\* counts from the end and both ends are clipped to the sequence
PySlice(s, lo, hi) ==
    LET n == Len(s)
        cl(k) == IF k < 0 THEN (IF k + n < 0 THEN 0 ELSE k + n)
                 ELSE (IF k > n THEN n ELSE k)
        a == cl(lo)
        b == cl(hi)
    IN IF a >= b THEN <<>> ELSE SubSeq(s, a + 1, b)

(***************************************************************************)
(* xcorr: normalized sliding cross-correlation.                            *)
(***************************************************************************)
\* rolling_window(x, M)[i]: the i-th window (i 1-based here)
rolling_window(x, M) == [i \in 1..(Len(x) - M + 1) |-> SubSeq(x, i, i + M - 1)]

\* M^2 times the variance of s: zero exactly when nanstd(s) is zero
VarM2(s) == Len(s) * SumSeq([j \in 1..Len(s) |-> s[j] * s[j]])
              - SumSeq(s) * SumSeq(s)

\* M times nansum((y - meany) * (w - mean(w)))
CovM(y, w) == Len(y) * SumSeq([j \in 1..Len(y) |-> y[j] * w[j]])
                - SumSeq(y) * SumSeq(w)

\* the quotient of lines 71-73 at one window: 0/0 is NaN (by Cauchy-Schwarz
\* the numerator is 0 whenever the denominator is)
XcorrQuotient(y, w) ==
    LET num == CovM(y, w)
        den2 == VarM2(w) * VarM2(y)
    IN IF den2 = 0 THEN NaN
       ELSE Sgn(num) * ISqrt((10000 * num * num) \div den2)

\* Mutant: line 74 dropped, the quotient is returned as it is
XcorrZeroFillOmitted(y, w, q) == q

\* line 74: c[M * nanstd(tmp) * stdy == 0] = 0
XcorrZeroFill(y, w, q) == IF VarM2(w) * VarM2(y) = 0 THEN 0 ELSE q

xcorr(x, y) ==
    LET tmp == rolling_window(x, Len(y))
    IN [i \in 1..Len(tmp) |-> XcorrZeroFill(y, tmp[i], XcorrQuotient(y, tmp[i]))]

(***************************************************************************)
(* reject_moutliers                                                        *)
(***************************************************************************)
IsNonZero(v) == v # 0

\* Mutant: the mdev == 0 branch keeps the data as they are
MdevZeroBranchKeep(data, med2) == data

\* lines 259-262: data[inds] = datamed for every index
MdevZeroBranch(data, med2) == [i \in 1..Len(data) |-> med2 \div 2]

\* Mutant: keeps the values farther than m * mdev from the median
OutlierSelectFar(data, d2, md4, m) ==
    LET Keep(i) == d2[i] > m * md4
        RECURSIVE Pick(_)
        Pick(i) == IF i > Len(data) THEN <<>>
                   ELSE (IF Keep(i) THEN <<data[i]>> ELSE <<>>) \o Pick(i + 1)
    IN Pick(1)

\* lines 264-267: s = d / mdev; data[np.where(s <= m)]
\* d2 = 2 * d and md4 = 4 * median(d) = 2 * mdev, so s <= m iff d2 <= m * md4
OutlierSelect(data, d2, md4, m) ==
    LET Keep(i) == d2[i] <= m * md4
        RECURSIVE Pick(_)
        Pick(i) == IF i > Len(data) THEN <<>>
                   ELSE (IF Keep(i) THEN <<data[i]>> ELSE <<>>) \o Pick(i + 1)
    IN Pick(1)

reject_moutliers(data0, m) ==
    LET data == SelectSeq(data0, IsNonZero)
    IN IF data = <<>> THEN <<>>     \* median of nothing is nan, nothing is kept
       ELSE LET med2 == Median2(data)
                d2 == [i \in 1..Len(data) |-> Abs(2 * data[i] - med2)]
                md4 == Median2(d2)
            IN IF md4 = 0 THEN MdevZeroBranch(data, med2)
               ELSE OutlierSelect(data, d2, md4, m)

(***************************************************************************)
(* Traces and streams.  A trace is [id, starttime, data]; a Stream is a    *)
(* sequence of traces.                                                     *)
(***************************************************************************)
Tr(id, st, data) == [id |-> id, starttime |-> st, data |-> data]

\* Stream.remove(tr): list.remove, the first trace equal to tr goes
RECURSIVE StreamRemove(_, _)
StreamRemove(st, tr) ==
    IF st = <<>> THEN <<>>
    ELSE IF Head(st) = tr THEN Tail(st)
    ELSE <<Head(st)>> \o StreamRemove(Tail(st), tr)

\* Trace.trim(starttime=ts, endtime=te, pad=True, fill_value=0), delta = 1
Trim(tr, ts, te) ==
    [tr EXCEPT
       !.starttime = ts,
       !.data = [k \in 1..(te - ts + 1) |->
                   LET j == ts + k - tr.starttime
                   IN IF j >= 1 /\ j <= Len(tr.data) THEN tr.data[j] ELSE 0]]

(***************************************************************************)
(* stack                                                                   *)
(***************************************************************************)
\* nanstd(abs(trac.data)) times the number of samples, rounded down (the
\* traces of one stream have the same number of samples)
quality_cft(trac) == ISqrt(VarM2(MapAbs(trac.data)))

\* line 140, with avestd = sum(std_trac) / len(std_trac) and the multipliers
\* in tenths
IsOutlier(std_trac, itr, stdup, stddown) ==
    LET n == Len(std_trac)
        tot == SumSeq(std_trac)
    IN \/ 10 * n * std_trac[itr] >= tot * stdup
       \/ 10 * n * std_trac[itr] <= tot * stddown

\* Mutant: the loop walks the stream itself while traces are removed from it
\* (a list iterator: the element after a removed one is skipped)
RECURSIVE RemoveLoopLive(_, _, _, _, _)
RemoveLoopLive(std_trac, stdup, stddown, strm, itr) ==
    IF itr > Len(strm) THEN strm
    ELSE IF IsOutlier(std_trac, itr, stdup, stddown)
         THEN RemoveLoopLive(std_trac, stdup, stddown,
                             StreamRemove(strm, strm[itr]), itr + 1)
         ELSE RemoveLoopLive(std_trac, stdup, stddown, strm, itr + 1)

RemoveOutliersLive(std_trac, stdup, stddown, strm) ==
    RemoveLoopLive(std_trac, stdup, stddown, strm, 1)

\* lines 138-142.  Stream.__iter__ iterates over a copy of the trace list,
\* so the loop visits every trace of the stream as it was on entry
RECURSIVE RemoveLoop(_, _, _, _, _, _)
RemoveLoop(std_trac, stdup, stddown, entry, strm, itr) ==
    IF itr > Len(entry) THEN strm
    ELSE IF IsOutlier(std_trac, itr, stdup, stddown)
         THEN RemoveLoop(std_trac, stdup, stddown, entry,
                         StreamRemove(strm, entry[itr]), itr + 1)
         ELSE RemoveLoop(std_trac, stdup, stddown, entry, strm, itr + 1)

RemoveOutliers(std_trac, stdup, stddown, strm) ==
    RemoveLoop(std_trac, stdup, stddown, strm, strm, 1)

\* bn.nansum([tr.data for tr in stall], axis=0)
ColumnSums(strm, npts) ==
    [k \in 1..npts |-> SumSeq([i \in 1..Len(strm) |-> strm[i].data[k]])]

\* stack(stall, df, tstart, npts, stdup, stddown).  The result holds the
\* stream as stack leaves it (it is changed in place) and the stacked trace,
\* whose samples are data[k] / den.  With no trace left, the division of
\* line 145 (0.0 / 0) or the Trace constructor raises.
stack(strm, tstart, npts, stdup, stddown) ==
    LET std_trac == [i \in 1..Len(strm) |-> quality_cft(strm[i])]
        left == RemoveOutliers(std_trac, stdup, stddown, strm)
        itr == Len(left)
    IN IF itr = 0
       THEN [raised |-> TRUE, stall |-> left,
             tt |-> [starttime |-> tstart, data |-> <<>>, den |-> 0]]
       ELSE [raised |-> FALSE, stall |-> left,
             tt |-> [starttime |-> tstart,
                     data |-> ColumnSums(left, npts), den |-> itr]]

\* Mutant: the start of the first trace instead of the earliest start
StackStartFirst(strm) == strm[1].starttime

\* line 493: tstart = min([tr.stats.starttime for tr in stall])
StackStart(strm) == MinSeq([i \in 1..Len(strm) |-> strm[i].starttime])

\* lines 493-499
StackCall(strm, stdup, stddown) ==
    stack(strm, StackStart(strm), Len(strm[1].data), stdup, stddown)

(***************************************************************************)
(* Program constants (times in samples, correlation in hundredths).        *)
(***************************************************************************)
NChan == 2        \* station.channel pairs of the parameter file
H24 == 4          \* h24, the length of the day (86400 s), shortened
Pad60 == 1        \* the 60 s added to the alignment window, shortened
TempLength == 2   \* temp_length
Tier03 == 30
Tier05 == 50
Tier07 == 70
Tier09 == 90

Chan == 1..NChan

\* a fraction num / den
Frac(num, den) == [num |-> num, den |-> den]

FracOne == Frac(1, 1)

(***************************************************************************)
(* Per-template setup, lines 371-436.                                      *)
(***************************************************************************)
CountNonZero(s) == Len(SelectSeq(s, IsNonZero))

\* lines 385-400: the templates kept in stt, those with at most 75 per cent
\* of non-zero samples removed
SttChans(t) ==
    {c \in t.files : 100 * CountNonZero(t.data[c]) > 75 * Len(t.data[c])}

\* line 409
refT(t) == MinSeq([i \in 1..Cardinality(SttChans(t)) |->
              t.start[CHOOSE c \in SttChans(t) :
                        Cardinality({b \in SttChans(t) : b < c}) = i - 1]])

\* lines 411-416
damaxat(t, c) == MaxSeq(MapAbs(t.data[c]))

\* lines 430-431: the smallest value of the travel-time file
min_time_value(t) ==
    CHOOSE v \in {t.d[c] : c \in DOMAIN t.d} : \A c \in DOMAIN t.d : v <= t.d[c]

(***************************************************************************)
(* process_input, lines 78-116 and 438-444.                                *)
(***************************************************************************)
\* stream_df.select(station=ss, channel=ich): the traces of that channel
Select(st, c) == SelectSeq(st, LAMBDA tr : tr.id = c)

\* one call: a new trace with the header of the continuous trace and the
\* correlation as data is appended to stream_cft; stream_df is only read
process_input(t, c, sdf, scft) ==
    IF c \in t.files /\ Select(sdf, c) # <<>>
    THEN LET tc == Select(sdf, c)[1]
         IN Append(scft, Tr(tc.id, tc.starttime, xcorr(tc.data, t.data[c])))
    ELSE scft

RECURSIVE ProcessAll(_, _, _, _)
ProcessAll(t, c, sdf, scft) ==
    IF c > NChan THEN scft
    ELSE ProcessAll(t, c + 1, sdf, process_input(t, c, sdf, scft))

(***************************************************************************)
(* Alignment, lines 447-491.                                               *)
(***************************************************************************)
\* line 477
tdifmin_of(t, scft) == MinSeq([i \in 1..Len(scft) |-> t.d[scft[i].id]])

\* lines 479-491: every correlation trace is trimmed in place to
\* [start + tdif, start + tdif + h24 + 60] and added to stall
AlignTrim(t, scft) ==
    [i \in 1..Len(scft) |->
        LET Tstart == scft[i].starttime + t.d[scft[i].id]
        IN Trim(scft[i], Tstart, Tstart + H24 + Pad60)]

(***************************************************************************)
(* Noise level and triggers, lines 504-528.                                *)
(***************************************************************************)
\* lines 504-505: twice the median of |ccm| times the number of stacked
\* traces, ccm the non-zero samples of the stack; NaN when there is none
tstda2(cc) ==
    LET ccm == SelectSeq(cc.data, IsNonZero)
    IN IF ccm = <<>> THEN NaN ELSE Median2(MapAbs(ccm))

\* the samples (0-based) whose stacked value exceeds thr_on =
\* factor_thre * tstda; a comparison with NaN is false
OverThreshold(cc, factor_thre) ==
    IF tstda2(cc) = NaN THEN {}
    ELSE {k \in 0..(Len(cc.data) - 1) :
             2 * cc.data[k + 1] > factor_thre * tstda2(cc)}

\* an increasing sequence listing the set S
RECURSIVE Ascending(_)
Ascending(S) ==
    IF S = {} THEN <<>>
    ELSE LET m == CHOOSE v \in S : \A w \in S : v <= w
         IN <<m>> \o Ascending(S \ {m})

(***************************************************************************)
(* csc, lines 156-233.                                                     *)
(***************************************************************************)
CountOver(s, thr) == Cardinality({i \in 1..Len(s) : s[i] > thr})

\* Mutant: a rejected trigger is reported with a channel count of 0
CscSentinelZero ==
    [raised |-> FALSE, nch |-> 0, cft_ave |-> FracOne, crt |-> FracOne,
     cft_ave_trg |-> FracOne, crt_trg |-> FracOne,
     nch03 |-> 1, nch05 |-> 1, nch07 |-> 1, nch09 |-> 1, lines |-> <<>>]

\* lines 222-231
CscSentinel ==
    [raised |-> FALSE, nch |-> 1, cft_ave |-> FracOne, crt |-> FracOne,
     cft_ave_trg |-> FracOne, crt_trg |-> FracOne,
     nch03 |-> 1, nch05 |-> 1, nch07 |-> 1, nch09 |-> 1, lines |-> <<>>]

CscRaised == [CscSentinel EXCEPT !.raised = TRUE, !.nch = 0]

\* lines 187-189: tsc.data[tmp0:tmp1]
CscWindow(tsc, trigger_sample, sample_tol) ==
    PySlice(tsc.data, trigger_sample - sample_tol, trigger_sample + sample_tol + 1)

\* csc; tst2 is 2 * (number of stacked traces) * tstda and den that number.
\* max() of an empty window and the store of an empty slice into
\* max_trg[icft] raise ValueError.
csc(st, trigger_sample, tst2, den, sample_tol, cc_threshold, nch_min) ==
    LET n == Len(st)
        win(i) == CscWindow(st[i], trigger_sample, sample_tol)
        exact(i) == PySlice(st[i].data, trigger_sample, trigger_sample + 1)
    IN IF \E i \in 1..n : win(i) = <<>> \/ exact(i) = <<>>
       THEN CscRaised
       ELSE
       LET max_sct == [i \in 1..n |-> MaxSeq(win(i))]
           max_ind == [i \in 1..n |-> sample_tol - ArgMax(win(i))]
           max_trg == [i \in 1..n |-> exact(i)[1]]
           nch == CountOver(max_sct, cc_threshold)
       IN IF nch >= nch_min
          THEN [raised |-> FALSE, nch |-> nch,
                cft_ave |-> Frac(SumSeq(max_sct), n),
                crt |-> Frac(SumSeq(max_sct) * 2 * den, n * tst2),
                cft_ave_trg |-> Frac(SumSeq(max_trg), n),
                crt_trg |-> Frac(SumSeq(max_trg) * 2 * den, n * tst2),
                nch03 |-> CountOver(max_sct, Tier03),
                nch05 |-> CountOver(max_sct, Tier05),
                nch07 |-> CountOver(max_sct, Tier07),
                nch09 |-> CountOver(max_sct, Tier09),
                lines |-> [i \in 1..n |->
                             [kind |-> "chan", chan |-> st[i].id,
                              max_trg |-> max_trg[i], max_sct |-> max_sct[i],
                              max_ind |-> max_ind[i]]]]
          ELSE CscSentinel

(***************************************************************************)
(* Magnitude, lines 236-245 and 566-617.                                   *)
(***************************************************************************)
\* log10 of a power of ten
Log10(v) == CHOOSE e \in 0..3 : 10 ^ e = v

\* mag_detect: magt - log10(amaxt / amaxd)
mag_detect(magt, amaxt, amaxd) == magt - (Log10(amaxt) - Log10(amaxd))

\* lines 550-554 and 577: timex = tt[itrig]
timex_of(t, trigger_time, tdifmin) ==
    IF tdifmin = min_time_value(t) THEN trigger_time + tdifmin
    ELSE trigger_time + (min_time_value(t) - tdifmin)

\* Mutant: timestart is also assigned when tdifmin is 0
TimestartAlways(ts, timex, tdifmin, off, unit) ==
    [set |-> TRUE, val |-> timex + off, unit |-> unit]

\* lines 589-596: timestart is assigned when tdifmin < 0 and when tdifmin > 0;
\* with tdifmin = 0 the name keeps what it held
TimestartAssign(ts, timex, tdifmin, off, unit) ==
    IF tdifmin < 0
    THEN [set |-> TRUE, val |-> timex + Abs(tdifmin) + off, unit |-> unit]
    ELSE IF tdifmin > 0
    THEN [set |-> TRUE, val |-> timex - Abs(tdifmin) + off, unit |-> unit]
    ELSE ts

\* Mutant: the continuous trace is trimmed without being copied first
TrimInPlace(sdf, il, ts, te) ==
    [ta |-> Trim(sdf[il], ts, te), sdf |-> [sdf EXCEPT ![il] = Trim(sdf[il], ts, te)]]

\* lines 599-602: ta = tc.copy(); ta.trim(...): the trace of stream_df stays
CopyAndTrim(sdf, il, ts, te) ==
    [ta |-> Trim(sdf[il], ts, te), sdf |-> sdf]

\* lines 579-614, one pass over stream_df from its il-th trace on.  acc holds
\* md, stream_df, timestart, the lines for the .stats.mag file and whether a
\* read of the unassigned name timestart raised NameError.
RECURSIVE AmplitudeLoop(_, _, _, _, _, _)
AmplitudeLoop(t, il, timex, tdifmin, unit, acc) ==
    IF il > Len(acc.sdf) \/ acc.raised THEN acc
    ELSE LET tc == acc.sdf[il]
         IN IF tc.id \notin SttChans(t)
            THEN AmplitudeLoop(t, il + 1, timex, tdifmin, unit, acc)
            ELSE
            LET ts == TimestartAssign(acc.ts, timex, tdifmin,
                                      t.start[tc.id] - refT(t), unit)
            IN IF ~ts.set
               THEN [acc EXCEPT !.raised = TRUE]
               ELSE
               LET r == CopyAndTrim(acc.sdf, il, ts.val, ts.val + TempLength)
                   amaxac == MaxSeq(MapAbs(r.ta.data))
                   both == amaxac # 0 /\ damaxat(t, tc.id) # 0
                   m == mag_detect(t.mt, damaxat(t, tc.id), amaxac)
               IN AmplitudeLoop(t, il + 1, timex, tdifmin, unit,
                    [acc EXCEPT
                       !.sdf = r.sdf,
                       !.ts = ts,
                       !.used = Append(@, ts.unit),
                       !.md = IF both THEN [@ EXCEPT ![il] = m] ELSE @,
                       !.lines = IF both
                                 THEN Append(@, [kind |-> "mag", chan |-> tc.id,
                                                 md |-> m])
                                 ELSE @])

\* a / b rounded to the nearest integer, b > 0
RoundDiv(a, b) == (2 * a + b) \div (2 * b)

\* Mutant: the mean of no estimate is reported as magnitude 0
MeanRound2Zero(mdr) ==
    IF mdr = <<>> THEN 0 ELSE RoundDiv(100 * SumSeq(mdr), Len(mdr))

\* line 617: round(np.mean(mdr), 2) in hundredths; the mean of nothing is nan
MeanRound2(mdr) ==
    IF mdr = <<>> THEN NaN ELSE RoundDiv(100 * SumSeq(mdr), Len(mdr))

(***************************************************************************)
(* The run: for every day, for every template, one (template, day) unit.   *)
(* Reading the continuous files, detrending and filtering them is left to  *)
(* obspy; LoadDay starts from the traces it yields.                        *)
(***************************************************************************)
\* (stdup, stddown) in tenths
PipeStdMenu == {<<25, 5>>, <<10, 0>>}

CfgMenu ==
    {[nch_min |-> n, sample_tol |-> tol, cc_threshold |-> cc,
      factor_thre |-> ft, stdup |-> sd[1], stddown |-> sd[2]] :
        n \in 1..NChan, tol \in 0..1, cc \in {30, 50}, ft \in 0..1,
        sd \in PipeStdMenu}

\* continuous data of one channel: H24 + 1 samples from time 0
DfA == <<0, 10, 0, 0, 0>>

DfC == <<0, 10, 10, 0, 0>>

DfD == <<0, 0, 1, 0, 0>>

DfZ == <<0, 0, 0, 0, 0>>

\* the continuous traces of a day, a trace for some or all of the channels
DfMenu ==
    { <<Tr(1, 0, DfA), Tr(2, 0, DfC)>>,
      <<Tr(1, 0, DfA), Tr(2, 0, DfA)>>,
      <<Tr(1, 0, DfA), Tr(2, 0, DfZ)>>,
      <<Tr(1, 0, DfD), Tr(2, 0, DfC)>>,
      <<Tr(1, 0, DfZ), Tr(2, 0, DfZ)>>,
      <<Tr(1, 0, DfA)>> }

Wave == <<1, 10, 1>>

\* template files (channel -> samples and start), travel-time file d and
\* catalogue magnitude mt
Templates ==
    { [files |-> {1, 2}, data |-> <<Wave, Wave>>, start |-> <<0, 0>>,
       d |-> <<0, 0>>, mt |-> 2],
      [files |-> {1, 2}, data |-> <<Wave, Wave>>, start |-> <<0, 1>>,
       d |-> <<1, 2>>, mt |-> 2],
      [files |-> {1, 2}, data |-> <<Wave, Wave>>, start |-> <<1, 0>>,
       d |-> <<0, -1>>, mt |-> 1],
      [files |-> {1}, data |-> <<Wave, Wave>>, start |-> <<0, 0>>,
       d |-> <<1, 0>>, mt |-> 2],
      [files |-> {1, 2}, data |-> <<Wave, <<0, 1, 0>>>>, start |-> <<0, 0>>,
       d |-> <<0, 1>>, mt |-> 1],
      [files |-> {1, 2}, data |-> <<Wave, Wave>>, start |-> <<0, 0>>,
       d |-> <<1>>, mt |-> 2],
      [files |-> {2}, data |-> <<Wave, <<0, 1, 0>>>>, start |-> <<0, 0>>,
       d |-> <<0, 0>>, mt |-> 2],
      [files |-> {2}, data |-> <<Wave, Wave>>, start |-> <<0, 0>>,
       d |-> <<0, 0>>, mt |-> 2] }

NoTpl == [files |-> {}, data |-> <<>>, start |-> <<>>, d |-> <<>>, mt |-> 0]

NoStack == [raised |-> FALSE, stall |-> <<>>,
            tt |-> [starttime |-> 0, data |-> <<>>, den |-> 0]]

NoTimestart == [set |-> FALSE, val |-> 0, unit |-> 0]

PipeIdle ==
    /\ cfg = [nch_min |-> 1, sample_tol |-> 0, cc_threshold |-> 50,
              factor_thre |-> 0, stdup |-> 25, stddown |-> 5]
    /\ stream_df = <<>>
    /\ nunits = 0
    /\ tpl = NoTpl
    /\ stream_cft = <<>>
    /\ stall = <<>>
    /\ ccmad = NoStack
    /\ triglist = <<>>
    /\ itrig = 0
    /\ cscres = CscSentinel
    /\ md = <<>>
    /\ timestart = NoTimestart
    /\ f = <<>>
    /\ f1 = <<>>
    /\ f2 = <<>>
    /\ err = ""

Init ==
    /\ pc = "load"
    /\ arg = <<>>
    /\ ret = <<>>
    /\ cfg \in CfgMenu
    /\ stream_df = <<>>
    /\ nunits = 0
    /\ tpl = NoTpl
    /\ stream_cft = <<>>
    /\ stall = <<>>
    /\ ccmad = NoStack
    /\ triglist = <<>>
    /\ itrig = 0
    /\ cscres = CscSentinel
    /\ md = <<>>
    /\ timestart = NoTimestart
    /\ f = <<>>
    /\ f1 = <<>>
    /\ f2 = <<>>
    /\ err = ""

\* an exception nothing catches ends the run
Crash(e) == pc' = "crashed" /\ err' = e

\* lines 334-369: the continuous traces of the day
LoadDay ==
    /\ pc = "load"
    /\ stream_df' \in DfMenu
    /\ pc' = "template"
    /\ UNCHANGED <<arg, ret, cfg, nunits, tpl, stream_cft, stall, ccmad,
                   triglist, itrig, cscres, md, timestart, f, f1, f2, err>>

\* lines 371-436
SetupTemplate ==
    /\ pc = "template"
    /\ nunits < MaxUnits
    /\ \E t \in Templates :
          /\ tpl' = t
          /\ IF SttChans(t) = {}
             THEN Crash("ValueError: min() arg is an empty sequence (refT)")
             ELSE pc' = "correlate" /\ err' = err
    /\ nunits' = nunits + 1
    /\ f' = <<>>
    /\ stream_cft' = <<>>
    /\ UNCHANGED <<arg, ret, cfg, stream_df, stall, ccmad, triglist, itrig,
                   cscres, md, timestart, f1, f2>>

\* lines 438-444
Correlate ==
    /\ pc = "correlate"
    /\ stream_cft' = ProcessAll(tpl, 1, stream_df, stream_cft)
    /\ pc' = "align"
    /\ UNCHANGED <<arg, ret, cfg, stream_df, nunits, tpl, stall, ccmad,
                   triglist, itrig, cscres, md, timestart, f, f1, f2, err>>

\* lines 447-491
Align ==
    /\ pc = "align"
    /\ IF \E i \in 1..Len(stream_cft) : stream_cft[i].id \notin DOMAIN tpl.d
       THEN /\ Crash("KeyError: d[s]")
            /\ stall' = <<>>
            /\ UNCHANGED stream_cft
       ELSE IF stream_cft = <<>>
       THEN /\ Crash("ValueError: min() arg is an empty sequence (tdif)")
            /\ stall' = <<>>
            /\ UNCHANGED stream_cft
       ELSE /\ stream_cft' = AlignTrim(tpl, stream_cft)
            /\ stall' = AlignTrim(tpl, stream_cft)
            /\ pc' = "stack"
            /\ err' = err
    /\ UNCHANGED <<arg, ret, cfg, stream_df, nunits, tpl, ccmad, triglist,
                   itrig, cscres, md, timestart, f, f1, f2>>

\* Mutant: stack filters a copy, the caller's stall keeps every trace
StallKeptByCaller(before, left) == before

\* lines 141 and 499: stall.remove(tr) acts on the Stream object the caller
\* passed, so after the call the caller's stall holds the traces left
StallSeenByCaller(before, left) == left

\* lines 493-499
Stack ==
    /\ pc = "stack"
    /\ LET r == StackCall(stall, cfg.stdup, cfg.stddown)
       IN /\ ccmad' = r
          /\ stall' = StallSeenByCaller(stall, r.stall)
          /\ IF r.raised
             THEN Crash("ZeroDivisionError: stack of no trace")
             ELSE pc' = "trigger" /\ err' = err
    /\ UNCHANGED <<arg, ret, cfg, stream_df, nunits, tpl, stream_cft, triglist,
                   itrig, cscres, md, timestart, f, f1, f2>>

\* lines 504-546: coincidence_trigger (obspy) turns on at samples whose
\* stacked value exceeds thr_on; the triggers are at most MaxTrig of them
TrigSetup ==
    /\ pc = "trigger"
    /\ \E S \in SUBSET OverThreshold(ccmad.tt, cfg.factor_thre) :
          /\ Cardinality(S) <= MaxTrig
          /\ triglist' = Ascending(S)
          /\ pc' = IF S = {} THEN "close" ELSE "csc"
    /\ itrig' = 0
    /\ f1' = <<>>
    /\ f2' = <<>>
    /\ UNCHANGED <<arg, ret, cfg, stream_df, nunits, tpl, stream_cft, stall,
                   ccmad, cscres, md, timestart, f, err>>

\* lines 548-564: the call of csc for trigger itrig
CscStep ==
    /\ pc = "csc"
    /\ LET r == csc(stall, triglist[itrig + 1], tstda2(ccmad.tt), ccmad.tt.den,
                    cfg.sample_tol, cfg.cc_threshold, cfg.nch_min)
       IN /\ cscres' = r
          /\ f1' = f1 \o r.lines
          /\ IF r.raised
             THEN Crash("ValueError: max() arg is an empty sequence (csc)")
             ELSE pc' = "record" /\ err' = err
    /\ UNCHANGED <<arg, ret, cfg, stream_df, nunits, tpl, stream_cft, stall,
                   ccmad, triglist, itrig, md, timestart, f, f2>>

\* lines 566-614 for trigger itrig: the amplitude of every continuous
\* channel that has a template, and its magnitude estimate
MagnitudeStep ==
    /\ pc = "record"
    /\ IF cscres.nch >= cfg.nch_min
       THEN LET tdifmin == tdifmin_of(tpl, stream_cft)
                timex == timex_of(tpl, ccmad.tt.starttime + triglist[itrig + 1],
                                  tdifmin)
                a == AmplitudeLoop(tpl, 1, timex, tdifmin, nunits,
                       [md |-> [i \in 1..Len(stream_df) |-> 0],
                        sdf |-> stream_df, ts |-> timestart, used |-> <<>>,
                        lines |-> <<>>, raised |-> FALSE])
            IN /\ stream_df' = a.sdf
               /\ timestart' = a.ts
               /\ md' = [est |-> a.md, tt |-> timex, ts_from |-> a.used]
               /\ f2' = f2 \o a.lines
               /\ IF a.raised
                  THEN Crash("NameError: name 'timestart' is not defined")
                  ELSE pc' = "emit" /\ err' = err
               /\ UNCHANGED itrig
       ELSE /\ itrig' = itrig + 1
            /\ pc' = IF itrig + 1 < Len(triglist) THEN "csc" ELSE "close"
            /\ UNCHANGED <<stream_df, timestart, md, f2, err>>
    /\ UNCHANGED <<arg, ret, cfg, nunits, tpl, stream_cft, stall, ccmad,
                   triglist, cscres, f, f1>>

\* lines 616-637 for trigger itrig: the magnitude and the detection record
EmitStep ==
    /\ pc = "emit"
    /\ LET mdr == reject_moutliers(md.est, 1)
           rec == [kind |-> "det", unit |-> nunits, itrig |-> itrig,
                   tt |-> md.tt, mm |-> MeanRound2(mdr), mt |-> tpl.mt,
                   nch |-> cscres.nch, cft_ave |-> cscres.cft_ave,
                   crt |-> cscres.crt, cft_ave_trg |-> cscres.cft_ave_trg,
                   crt_trg |-> cscres.crt_trg, nch03 |-> cscres.nch03,
                   nch05 |-> cscres.nch05, nch07 |-> cscres.nch07,
                   nch09 |-> cscres.nch09, ts_from |-> md.ts_from]
       IN /\ f1' = Append(f1, rec)
          /\ f2' = Append(f2, rec)
          /\ f' = Append(f, rec)
    /\ itrig' = itrig + 1
    /\ pc' = IF itrig + 1 < Len(triglist) THEN "csc" ELSE "close"
    /\ UNCHANGED <<arg, ret, cfg, stream_df, nunits, tpl, stream_cft, stall,
                   ccmad, triglist, cscres, md, timestart, err>>

\* lines 638-640, and on to the next template of the day.  The files are
\* closed; the names of the unit are all bound anew before the next unit
\* reads them (lines 372-377, 402-436, 447-459, 499-546, 550-577), timestart
\* excepted.
CloseUnit ==
    /\ pc = "close"
    /\ pc' = IF nunits < MaxUnits THEN "template" ELSE "done"
    /\ tpl' = NoTpl
    /\ stream_cft' = <<>>
    /\ stall' = <<>>
    /\ ccmad' = NoStack
    /\ triglist' = <<>>
    /\ itrig' = 0
    /\ cscres' = CscSentinel
    /\ md' = <<>>
    /\ f' = <<>>
    /\ f1' = <<>>
    /\ f2' = <<>>
    /\ UNCHANGED <<arg, ret, cfg, stream_df, nunits, timestart, err>>

Next ==
    \/ LoadDay
    \/ SetupTemplate
    \/ Correlate
    \/ Align
    \/ Stack
    \/ TrigSetup
    \/ CscStep
    \/ MagnitudeStep
    \/ EmitStep
    \/ CloseUnit

Spec == Init /\ [][Next]_vars

(***************************************************************************)
(* Specifications of the pure functions: Init draws the inputs, one        *)
(* action applies the function.                                            *)
(***************************************************************************)
SeqsUpTo(S, lo, hi) == UNION {[1..n -> S] : n \in lo..hi}

XcorrVal == 0..2

InitXcorr ==
    /\ pc = "call"
    /\ \E y \in SeqsUpTo(XcorrVal, 1, MaxY) :
       \E x \in SeqsUpTo(XcorrVal, Len(y), MaxX) :
           arg = [x |-> x, y |-> y]
    /\ ret = <<>>
    /\ PipeIdle

ApplyXcorr ==
    /\ pc = "call"
    /\ pc' = "done"
    /\ ret' = xcorr(arg.x, arg.y)
    /\ UNCHANGED arg
    /\ UNCHANGED pipeVars

SpecXcorr == InitXcorr /\ [][ApplyXcorr]_vars

RejVal == {-1, 0, 1, 2, 30}

InitReject ==
    /\ pc = "call"
    /\ \E data \in SeqsUpTo(RejVal, 1, MaxVec) : arg = [data |-> data, m |-> 1]
    /\ ret = <<>>
    /\ PipeIdle

ApplyReject ==
    /\ pc = "call"
    /\ pc' = "done"
    /\ ret' = reject_moutliers(arg.data, arg.m)
    /\ UNCHANGED arg
    /\ UNCHANGED pipeVars

SpecReject == InitReject /\ [][ApplyReject]_vars

\* traces of two samples: the standard deviation of |a|, |b| is ||a| - |b|| / 2
StackData == {<<0, 0>>, <<0, 20>>, <<0, 40>>, <<0, -100>>}

StackStarts == 0..1

\* (stdup, stddown) in tenths
StdMenu == {<<20, 5>>, <<12, 8>>, <<10, 0>>}

StallsOf(n) ==
    {[i \in 1..n |-> Tr(i, g[i][1], g[i][2])] : g \in [1..n -> StackStarts \X StackData]}

InitStack ==
    /\ pc = "call"
    /\ \E n \in 1..MaxTraces : \E st \in StallsOf(n) : \E sd \in StdMenu :
           arg = [stall |-> st, stdup |-> sd[1], stddown |-> sd[2]]
    /\ ret = <<>>
    /\ PipeIdle

ApplyStack ==
    /\ pc = "call"
    /\ pc' = "done"
    /\ ret' = StackCall(arg.stall, arg.stdup, arg.stddown)
    /\ UNCHANGED arg
    /\ UNCHANGED pipeVars

SpecStack == InitStack /\ [][ApplyStack]_vars

(***************************************************************************)
(* C8  xcorr                                                               *)
(***************************************************************************)
Constant(w) == \A j, k \in 1..Len(w) : w[j] = w[k]

\* C8: for every continuous sequence x and template y with
\* len(x) >= len(y) >= 1, xcorr returns exactly len(x) - len(y) + 1 values,
\* none of them NaN, and the value at every shift whose window, or the
\* template, has zero variance is exactly 0.
C8_XcorrFullLengthZeroFilled ==
    pc = "done" =>
        /\ Len(ret) = Len(arg.x) - Len(arg.y) + 1
        /\ \A i \in 1..Len(ret) :
              /\ ret[i] # NaN
              /\ ret[i] \in -100..100
              /\ (Constant(SubSeq(arg.x, i, i + Len(arg.y) - 1)) \/ Constant(arg.y))
                    => ret[i] = 0

\* a result with a degenerate shift next to a perfectly correlated one
C8_Witness ==
    /\ pc = "done"
    /\ ~Constant(arg.y)
    /\ \E i, k \in 1..Len(ret) :
          /\ Constant(SubSeq(arg.x, i, i + Len(arg.y) - 1))
          /\ ret[i] = 0
          /\ ret[k] = 100

(***************************************************************************)
(* C5  reject_moutliers                                                    *)
(***************************************************************************)
Without(v, i) == [k \in 1..(Len(v) - 1) |-> IF k < i THEN v[k] ELSE v[k + 1]]

Spread(v) == MaxSeq(v) - MinSeq(v)

\* v[i] differs from every other value by more than four times the spread
\* of the other values
ExtremeAt(v, i) ==
    /\ Len(v) >= 2
    /\ \A j \in 1..Len(v) :
          j # i => /\ v[j] # v[i]
                   /\ Abs(v[i] - v[j]) > 4 * Spread(Without(v, i))

OneExtremeOutlier(v, i) ==
    /\ i \in 1..Len(v)
    /\ \A j \in 1..Len(v) : ExtremeAt(v, j) <=> j = i

AllNonZero(v) == \A j \in 1..Len(v) : v[j] # 0

\* 4 * MAD of v, which is 2 * mdev
Mad4(v) == Median2([k \in 1..Len(v) |-> Abs(2 * v[k] - Median2(v))])

\* the values of v, from the k-th on and but for the i-th, that lie within
\* mdev = 2 * MAD of the median of v, in order
RECURSIVE OthersWithinMdev(_, _, _)
OthersWithinMdev(v, i, k) ==
    IF k > Len(v) THEN <<>>
    ELSE (IF k # i /\ Abs(2 * v[k] - Median2(v)) <= Mad4(v)
          THEN <<v[k]>> ELSE <<>>) \o OthersWithinMdev(v, i, k + 1)

\* C5 as stated: with m = 1, for every vector of non-zero values that holds
\* exactly one extreme outlier, the result is the vector without the
\* outlier, values and order unchanged, also when the other values are all
\* identical.
C5_OutlierExcludedRestUnchanged ==
    (pc = "done" /\ AllNonZero(arg.data)) =>
        \A i \in 1..Len(arg.data) :
            OneExtremeOutlier(arg.data, i) => ret = Without(arg.data, i)

\* C5 amended: with m = 1, for every vector of at least three non-zero
\* values that holds exactly one extreme outlier: when the median absolute
\* deviation is not 0 the result excludes the outlier and consists of the
\* other values that lie within mdev = 2 * MAD of the median, unchanged and
\* in their order (all of them when none lies farther); when it is 0 the
\* result has the length of the input and every entry, the outlier's
\* included, equals the median.
C5_Amended ==
    (pc = "done" /\ AllNonZero(arg.data) /\ Len(arg.data) >= 3) =>
        \A i \in 1..Len(arg.data) :
            OneExtremeOutlier(arg.data, i) =>
                IF Mad4(arg.data) # 0
                THEN /\ ret = OthersWithinMdev(arg.data, i, 1)
                     /\ (\A k \in 1..Len(arg.data) :
                            k # i => Abs(2 * arg.data[k] - Median2(arg.data))
                                       <= Mad4(arg.data))
                          => ret = Without(arg.data, i)
                ELSE /\ Len(ret) = Len(arg.data)
                     /\ \A k \in 1..Len(ret) : 2 * ret[k] = Median2(arg.data)

\* an outlier dropped from a vector whose other values differ
C5_Witness ==
    /\ pc = "done"
    /\ AllNonZero(arg.data)
    /\ Len(arg.data) >= 3
    /\ OneExtremeOutlier(arg.data, 2)
    /\ Mad4(arg.data) # 0
    /\ ret = Without(arg.data, 2)
    /\ ret[1] # ret[2]

(***************************************************************************)
(* C4, C10  stack                                                          *)
(***************************************************************************)
StartsOf(st) == {st[i].starttime : i \in 1..Len(st)}

IsMinOf(v, S) == v \in S /\ \A w \in S : v <= w

\* C4 as stated: the start of the stacked trace is the earliest start among
\* the traces that survive the quality filter.
C4_StartIsMinOfSurvivors ==
    (pc = "done" /\ ~ret.raised) =>
        IsMinOf(ret.tt.starttime, StartsOf(ret.stall))

\* C4 amended: the start of the stacked trace is the earliest start among
\* all the traces given to the stacking step, before the quality filter
\* removes any; when the trace with the earliest start is removed, the
\* stacked start is still that trace's start.
C4_StartIsMinOfAllInputs ==
    (pc = "done" /\ ~ret.raised) =>
        IsMinOf(ret.tt.starttime, StartsOf(arg.stall))

\* the earliest trace is removed and the stacked start is still its start
C4_Witness ==
    /\ pc = "done"
    /\ ~ret.raised
    /\ Len(ret.stall) < Len(arg.stall)
    /\ \A i \in 1..Len(ret.stall) : ret.stall[i].starttime > ret.tt.starttime
    /\ \E i \in 1..Len(arg.stall) : arg.stall[i].starttime = ret.tt.starttime

\* 2 * (number of samples) * std of |data|, worked out on the samples
Dev2(tr) == LET a == MapAbs(tr.data) IN
            IF Len(a) = 2 THEN 2 * Abs(a[1] - a[2]) ELSE 2 * quality_cft(tr)

\* avgStd * stddown < std_i < avgStd * stdup, avgStd over all input traces
InBand(st, i, stdup, stddown) ==
    LET n == Len(st)
        tot == SumSeq([j \in 1..n |-> Dev2(st[j])])
    IN /\ tot * stddown < 10 * n * Dev2(st[i])
       /\ 10 * n * Dev2(st[i]) < tot * stdup

RECURSIVE BandTraces(_, _, _, _)
BandTraces(st, i, stdup, stddown) ==
    IF i > Len(st) THEN <<>>
    ELSE (IF InBand(st, i, stdup, stddown) THEN <<st[i]>> ELSE <<>>)
           \o BandTraces(st, i + 1, stdup, stddown)

\* C10: after the removal loop the surviving traces are exactly the input
\* traces i with avgStd * stddown < std_i < avgStd * stdup, in their input
\* order, avgStd being the mean over all input traces; no other trace is
\* removed or skipped.
C10_SurvivorsAreTheBand ==
    pc = "done" => ret.stall = BandTraces(arg.stall, 1, arg.stdup, arg.stddown)

\* two traces in a row are removed and the one after them is kept
C10_Witness ==
    /\ pc = "done"
    /\ Len(arg.stall) >= 3
    /\ \E i \in 1..(Len(arg.stall) - 2) :
          /\ ~InBand(arg.stall, i, arg.stdup, arg.stddown)
          /\ ~InBand(arg.stall, i + 1, arg.stdup, arg.stddown)
          /\ InBand(arg.stall, i + 2, arg.stdup, arg.stddown)
          /\ ret.stall = <<arg.stall[i + 2]>>

(***************************************************************************)
(* Properties of the per-trigger loop, checked under Spec.                 *)
(***************************************************************************)
\* a channel's peak within sample_tol samples of sample k, taken over the
\* samples of the trace that exist, exceeds cc_threshold
WindowedPeakOver(tr, k) ==
    \E j \in (k - cfg.sample_tol)..(k + cfg.sample_tol) :
        /\ j >= 0
        /\ j < Len(tr.data)
        /\ tr.data[j + 1] > cfg.cc_threshold

\* the number of channels of stall whose windowed peak exceeds cc_threshold
PeakCount(k) ==
    Cardinality({i \in 1..Len(stall) : WindowedPeakOver(stall[i], k)})

DetLines(file) == {i \in 1..Len(file) : file[i].kind = "det"}

\* C1: a trigger for which fewer than nch_min channels have a windowed peak
\* above cc_threshold leaves no detection record: every summary line of the
\* .cat, .stats and .stats.mag files belongs to a trigger with at least
\* nch_min such channels, for every nch_min including 1.
C1_NoRecordBelowMinChannels ==
    /\ \A i \in DetLines(f) :
          PeakCount(triglist[f[i].itrig + 1]) >= cfg.nch_min
    /\ \A i \in DetLines(f1) :
          PeakCount(triglist[f1[i].itrig + 1]) >= cfg.nch_min
    /\ \A i \in DetLines(f2) :
          PeakCount(triglist[f2[i].itrig + 1]) >= cfg.nch_min

\* C2: csc does not raise for a trigger with fewer than nch_min channels
\* above cc_threshold: when the run has ended in the ValueError of csc, the
\* trigger in hand had at least nch_min such channels.
C2_CscNeverRaisesBelowMinChannels ==
    (pc = "crashed" /\ err = "ValueError: max() arg is an empty sequence (csc)")
        => PeakCount(triglist[itrig + 1]) >= cfg.nch_min

\* C3: when the quality filter of stack has removed every trace, the run is
\* not ended by it: the unit alone is given up and the next one can start.
C3_EmptyStackEndsUnitOnly ==
    (ccmad.raised /\ stall = <<>>) => pc # "crashed"

AllZero(v) == \A i \in 1..Len(v) : v[i] = 0

\* C6: when every per-channel magnitude estimate of a validated trigger is
\* zero, the step that follows still appends the detection record to the
\* three files, the record carries NaN for the magnitude, and the run does
\* not end in an exception.
C6_NoEstimateStillEmitsRecord ==
    [][(pc = "emit" /\ AllZero(md.est))
         => /\ pc' # "crashed"
            /\ Len(f') = Len(f) + 1
            /\ Len(f1') = Len(f1) + 1
            /\ Len(f2') = Len(f2) + 1
            /\ f'[Len(f')].mm = NaN
            /\ f1'[Len(f1')] = f'[Len(f')]
            /\ f2'[Len(f2')] = f'[Len(f')]
            /\ f'[Len(f')].itrig = itrig]_vars

\* a record with NaN for its magnitude has been written for a trigger of
\* which a continuous channel had a template but no amplitude
C6_Witness ==
    /\ f # <<>>
    /\ f[Len(f)].mm = NaN
    /\ f[Len(f)].ts_from # <<>>
    /\ pc \in {"csc", "close"}

\* C7: every amplitude window start used to build a record was computed in
\* the unit of the record, whatever the sign of tdifmin, and no unit ends in
\* the read of a name that was never assigned.
C7_RecordBuiltFromOwnUnit ==
    /\ \A i \in DetLines(f) :
          \A j \in 1..Len(f[i].ts_from) : f[i].ts_from[j] = f[i].unit
    /\ err # "NameError: name 'timestart' is not defined"

\* C9: once the day is loaded no step changes stream_df: sample data, start
\* time and length of every continuous trace stay what they were.
C9_StreamDfNeverModified ==
    [][pc # "load" => stream_df' = stream_df]_vars

\* the second template of the day is being processed and an amplitude has
\* been measured on a trimmed copy of a continuous trace
C9_Witness ==
    /\ pc = "emit"
    /\ nunits = MaxUnits
    /\ md.ts_from # <<>>
    /\ ~AllZero(md.est)

\* the median filter of reject_moutliers applied to a vector as it is, no
\* entry of it taken for a missing one
FilterAroundMedian(v, m) ==
    IF v = <<>> THEN <<>>
    ELSE LET med2 == Median2(v)
             d2 == [i \in 1..Len(v) |-> Abs(2 * v[i] - med2)]
             md4 == Median2(d2)
         IN IF md4 = 0 THEN MdevZeroBranch(v, med2)
            ELSE OutlierSelect(v, d2, md4, m)

\* the estimates of the per-channel lines that end the first n lines of a
\* file: one line is written for every channel of the trigger whose template
\* and detection amplitudes are both non-zero
RECURSIVE TrailingEstimates(_, _)
TrailingEstimates(file, n) ==
    IF n = 0 \/ file[n].kind # "mag" THEN <<>>
    ELSE Append(TrailingEstimates(file, n - 1), file[n].md)

\* C11: the magnitude of the record of a validated trigger is the rounded mean of the median-filtered
\* estimates of all the channels with both amplitudes non-zero, an estimate
\* of exactly 0 among them counted like any other.
C11_MagnitudeOfAllNonZeroAmplitudeChannels ==
    (/\ f2 # <<>>
     /\ f2[Len(f2)].kind = "det"
     /\ PeakCount(triglist[f2[Len(f2)].itrig + 1]) >= cfg.nch_min)
        => f2[Len(f2)].mm =
             MeanRound2(FilterAroundMedian(TrailingEstimates(f2, Len(f2) - 1), 1))

\* the samples (0-based indices) of a trace within sample_tol of sample k
WindowIndices(tr, k) ==
    {j \in (k - cfg.sample_tol)..(k + cfg.sample_tol) :
        j >= 0 /\ j < Len(tr.data)}

\* the largest sample of the window
WindowPeak(tr, k) ==
    CHOOSE v \in {tr.data[j + 1] : j \in WindowIndices(tr, k)} :
        \A j \in WindowIndices(tr, k) : tr.data[j + 1] <= v

\* the position in the window, counted from its first sample, of the first
\* sample that has the value of the peak
WindowPeakPosition(tr, k) ==
    LET first == CHOOSE j \in WindowIndices(tr, k) :
                     \A i \in WindowIndices(tr, k) : j <= i
        at == CHOOSE j \in WindowIndices(tr, k) :
                  /\ tr.data[j + 1] = WindowPeak(tr, k)
                  /\ \A i \in WindowIndices(tr, k) :
                        tr.data[i + 1] = WindowPeak(tr, k) => j <= i
    IN at - first

\* C12: for a trigger at a sample of the trace csc does not raise, and the
\* per-channel values it reports are the peak of the samples that exist
\* within sample_tol of the trigger sample, sample_tol minus the position of
\* the first such peak, and the sample at the trigger sample itself.
C12_CscWindowClippedToTrace ==
    /\ err # "ValueError: max() arg is an empty sequence (csc)"
    /\ (pc \in {"record", "emit"} /\ cscres.lines # <<>>)
          => \A i \in 1..Len(stall) :
                LET k == triglist[itrig + 1]
                IN /\ cscres.lines[i].chan = stall[i].id
                   /\ cscres.lines[i].max_sct = WindowPeak(stall[i], k)
                   /\ cscres.lines[i].max_ind =
                          cfg.sample_tol - WindowPeakPosition(stall[i], k)
                   /\ cscres.lines[i].max_trg = stall[i].data[k + 1]

\* the traces of stall are those whose samples were summed, sample by
\* sample, into the stacked trace and whose number it was divided by
StallIsWhatWasStacked ==
    /\ ccmad.tt.den = Len(stall)
    /\ stall = ccmad.stall
    /\ \A k \in 1..Len(ccmad.tt.data) :
          ccmad.tt.data[k] = SumSeq([i \in 1..Len(stall) |-> stall[i].data[k]])

\* the statistics of an accepted trigger are taken over the traces of stall
CscOverStall ==
    LET k == triglist[itrig + 1]
        peaks == [i \in 1..Len(stall) |-> WindowPeak(stall[i], k)]
    IN /\ Len(cscres.lines) = Len(stall)
       /\ \A i \in 1..Len(stall) : cscres.lines[i].chan = stall[i].id
       /\ cscres.nch = PeakCount(k)
       /\ cscres.nch03 = Cardinality({i \in 1..Len(stall) : peaks[i] > Tier03})
       /\ cscres.nch05 = Cardinality({i \in 1..Len(stall) : peaks[i] > Tier05})
       /\ cscres.nch07 = Cardinality({i \in 1..Len(stall) : peaks[i] > Tier07})
       /\ cscres.nch09 = Cardinality({i \in 1..Len(stall) : peaks[i] > Tier09})
       /\ cscres.cft_ave = [num |-> SumSeq(peaks), den |-> Len(stall)]

\* C13: from the stack call to the end of the unit stall holds exactly the
\* traces averaged into the stacked trace, the traces removed by the quality
\* filter gone from it; csc counts nch and the tiers and takes the mean peak
\* over these traces, and stall is the same for every trigger of the unit.
C13_CscSeesTheStackedTraces ==
    [][/\ pc' \in {"trigger", "csc", "record", "emit"} => StallIsWhatWasStacked'
       /\ (pc' \in {"record", "emit"} /\ cscres'.lines # <<>>) => CscOverStall'
       /\ pc \in {"trigger", "csc", "record", "emit"} => stall' = stall]_vars

\* the second trigger of a unit is accepted by csc over the one trace the
\* quality filter left of two
C13_Witness ==
    /\ pc = "record"
    /\ itrig = 1
    /\ cscres.lines # <<>>
    /\ Len(stall) = 1
    /\ Len(stream_cft) = 2

====
